---- MODULE Spec2Model ----
(***************************************************************************)
(* The schema-driven tabular editor of crud-system: the Remote Collection  *)
(* Store (useCrud), the Editable Table (CrudTable on a Formik form with    *)
(* enableReinitialize and a FieldArray), the page handlers that connect    *)
(* them, and the delete confirmation toast.                                *)
(* The last part is the error link of the Apollo client (apolloClient.ts): *)
(* its refreshing flag, its queue of pending requests and the observers of *)
(* the operations sent through it.                                         *)
(*                                                                         *)
(* One step of the model is one task of the UI event loop: a user event,   *)
(* or the resolution of one network request together with every            *)
(* continuation it wakes (the awaits are microtasks) and the render that   *)
(* follows, in which Formik's enableReinitialize effect runs.              *)
(***************************************************************************)
EXTENDS Integers, Sequences, FiniteSets

VARIABLES
  items,          \* useCrud: the Collection Snapshot
  loading,        \* useCrud: the initial load has not ended
  error,          \* useCrud: the initial load failed
  now,            \* the last reading of Date.now(), Epoch - 1 before the first
  network,        \* the requests in flight
  procs,          \* the async handlers suspended at an await, by slot
  mounted,        \* the users CrudTable is rendered
  values,         \* Formik: values.items, the Edit Buffer
  initialValues,  \* Formik: initialValues.current.items
  isSubmitting,   \* Formik: isSubmitting
  touched,        \* Formik: the rows whose name field is touched
  savingIndexes,  \* CrudTable: the rows shown as saving
  prompts,        \* the delete confirmations on screen, by slot
  appended,       \* the number of rows appended so far
  posts,          \* the number of POST calls issued so far
  isRefreshing,   \* apolloClient: isRefreshing
  pendingRequests,\* apolloClient: pendingRequests, the operations to replay
  operations,     \* errorLink: the operations and what their observers got
  location,       \* window.location of the page of the client
  last            \* the task of the event loop that ran last

vars == <<items, loading, error, now, network, procs, mounted, values,
          initialValues, isSubmitting, touched, savingIndexes, prompts, appended,
          posts, isRefreshing, pendingRequests, operations, location, last>>

storeVars == <<items, loading, error, now>>
formVars == <<values, initialValues, isSubmitting, touched, savingIndexes>>
linkVars == <<isRefreshing, pendingRequests, operations, location>>

-----------------------------------------------------------------------------
(* Bounds of the model *)

MaxAppends == 1    \* rows appended in one run
MaxPrompts == 1    \* delete confirmations on screen at once
MaxSaves == 1      \* saves in progress at once
MaxDeletes == 1    \* confirmed deletions in progress at once
MaxBatch == 2      \* rows appended in one run of SpecBatch
MaxPosts == 2      \* POST calls counted in one run
MaxOperations == 3 \* GraphQL operations sent through the error link

-----------------------------------------------------------------------------
(* Records *)

\* The sentinel identifier of a row that is not persisted.
Sentinel == 0

\* The first reading of Date.now(); it is above every loaded identifier.
Epoch == 10

\* The values a name field takes: empty, and two names that pass validation.
NameValues == {"", "Al", "Bo"}

User(id, name) == [id |-> id, name |-> name]

\* A template that carries the identifier of a persisted record.
emptyItemPersisted == User(1, "")

emptyItem == User(Sentinel, "")

\* The bodies GET /users answers with.
Responses == {<<User(1, "Al")>>}

\* A schema without rules: every row passes.
ValidUserAny(u) == TRUE

\* userValidation: name is required and has at least 2 characters.
ValidUser(u) == u.name # "" /\ Len(u.name) >= 2

\* The message userValidation gives for a name, "" when the name passes:
\* the message of the first rule that fails.
NameError(name) ==
  IF name = "" THEN "Required"
  ELSE IF Len(name) < 2 THEN "Min 2 chars"
  ELSE ""

\* userArrayValidation: every item of the array passes userValidation.
ValidForm(vals) == \A i \in DOMAIN vals : ValidUser(vals[i])

-----------------------------------------------------------------------------
(* Arrays are indexed from 0, as in the source: At(a, i) is a[i]. *)

Undefined == [undefined |-> TRUE]

At(a, i) == IF i + 1 \in DOMAIN a THEN a[i + 1] ELSE Undefined

Range(s) == {s[i] : i \in DOMAIN s}

\* JSON.stringify: the fields in insertion order (id first), undefined for undefined.
Stringify(v) ==
  IF v = Undefined THEN <<>>
  ELSE <<<<"id", v.id>>, <<"name", v.name>>>>

\* array.splice(index, 1) on a copy: an index past the end removes nothing.
Splice(a, index) ==
  [j \in 1..(Len(a) - (IF index + 1 \in DOMAIN a THEN 1 ELSE 0)) |->
     IF j <= index THEN a[j] ELSE a[j + 1]]

Min(a, b) == IF a < b THEN a ELSE b

-----------------------------------------------------------------------------
(* The Remote Collection Store: useCrud *)

\* The transformer of the users store keeps the first SliceLimit records.
SliceLimit == 5

Transformer(data) ==
  [i \in 1..Min(Len(data), SliceLimit) |-> User(data[i].id, data[i].name)]

\* { ...i, ...item }: the fields of item over the fields of i.
Spread(i, item) ==
  [f \in DOMAIN i \cup DOMAIN item |-> IF f \in DOMAIN item THEN item[f] ELSE i[f]]

\* The statuses a response carries: a success and a server error.
Statuses == {200, 500}

\* A store that treats a response that is not ok as a failure.
FetchRejectsNotOk(status) == status >= 400

\* Whether the awaited fetch of a write rejects on a response with this
\* status: fetch resolves on every response, and the store reads neither
\* res.ok nor the body.
FetchRejects(status) == FALSE

\* The fetch each Store operation awaits.
Fetch(method, url, body) == [method |-> method, url |-> url, body |-> body]

fetchItems == Fetch("GET", <<"users">>, Undefined)

createItemFetch(item) == Fetch("POST", <<"users">>, item)

updateItemFetch(id, item) == Fetch("PUT", <<"users", id>>, item)

deleteItemFetch(id) == Fetch("DELETE", <<"users", id>>, Undefined)

\* The setItems each Store operation runs once its fetch has returned.
\* createItem without the synthesized identifier: the row is stored as sent.
createItemKeepId(prev, item, stamp) == Append(prev, item)

createItem(prev, item, stamp) == Append(prev, Spread(item, [id |-> stamp]))

\* updateItem without the test of the identifier: every entry is merged.
updateItemAll(prev, id, item) == [i \in DOMAIN prev |-> Spread(prev[i], item)]

updateItem(prev, id, item) ==
  [i \in DOMAIN prev |-> IF prev[i].id = id THEN Spread(prev[i], item) ELSE prev[i]]

deleteItem(prev, id) == SelectSeq(prev, LAMBDA i : i.id # id)

-----------------------------------------------------------------------------
(* The page: handleSaveUsers *)

\* handleSaveUsers without the branch on user.id === 0: every row is updated.
handleSaveUsersUpdateOnly(its, dirtyIndexes) ==
  [k \in DOMAIN dirtyIndexes |->
     LET user == At(its, dirtyIndexes[k])
     IN  [op |-> "updateUser", id |-> user.id, item |-> user]]

\* The Store calls handleSaveUsers(its, dirtyIndexes) makes, in order: it
\* awaits each before the next.
handleSaveUsers(its, dirtyIndexes) ==
  [k \in DOMAIN dirtyIndexes |->
     LET user == At(its, dirtyIndexes[k])
     IN  IF user.id = Sentinel
         THEN [op |-> "createUser", id |-> Sentinel, item |-> user]
         ELSE [op |-> "updateUser", id |-> user.id, item |-> user]]

\* The fetch a Store call starts with.
FetchOf(call) ==
  IF call.op = "createUser" THEN createItemFetch(call.item)
  ELSE updateItemFetch(call.id, call.item)

\* The Snapshot after the fetch of a Store call has returned.
Settle(prev, call, stamp) ==
  IF call.op = "createUser" THEN createItem(prev, call.item, stamp)
  ELSE updateItem(prev, call.id, call.item)

-----------------------------------------------------------------------------
(* The Editable Table: the Formik form of CrudTable *)

\* A touch-based dirty set: every row of the form counts as dirty.
DirtyIndexesAll(vals, its) == [i \in DOMAIN vals |-> i - 1]

\* The dirty rows taken from the last row to the first.
DirtyIndexesDescending(vals, its) ==
  LET mapped == [i \in DOMAIN vals |->
                   LET k == Len(vals) + 1 - i
                   IN  IF \/ vals[k].id = Sentinel
                          \/ Stringify(vals[k]) # Stringify(At(its, k - 1))
                       THEN k - 1 ELSE -1]
  IN  SelectSeq(mapped, LAMBDA idx : idx # -1)

\* The row indices handleSubmit saves.
DirtyIndexes(vals, its) ==
  LET mapped == [i \in DOMAIN vals |->
                   IF \/ vals[i].id = Sentinel
                      \/ Stringify(vals[i]) # Stringify(At(its, i - 1))
                   THEN i - 1 ELSE -1]
  IN  SelectSeq(mapped, LAMBDA idx : idx # -1)

\* The state of the mounted form.
Form == [values |-> values, initialValues |-> initialValues,
         isSubmitting |-> isSubmitting, touched |-> touched,
         savingIndexes |-> savingIndexes]

NoForm == [values |-> <<>>, initialValues |-> <<>>,
           isSubmitting |-> FALSE, touched |-> {}, savingIndexes |-> {}]

FreshForm(its) == [NoForm EXCEPT !.values = its, !.initialValues = its]

\* A resetForm that leaves isSubmitting as it is.
resetFormKeepSubmitting(F, next) ==
  [F EXCEPT !.values = next, !.initialValues = next, !.touched = {}]

\* Formik resetForm({ values: next }).
resetForm(F, next) ==
  [F EXCEPT !.values = next, !.initialValues = next, !.isSubmitting = FALSE,
            !.touched = {}]

\* The render of a form without enableReinitialize: the form keeps its state.
RenderNoReinitialize(F, its) == F

\* The render of CrudTable with the Snapshot its: with enableReinitialize,
\* Formik resets the form when initialValues is not deep-equal to the prop.
Render(F, its) ==
  IF mounted /\ F.initialValues # its THEN resetForm(F, its) ELSE F

SetForm(F) ==
  /\ values' = F.values
  /\ initialValues' = F.initialValues
  /\ isSubmitting' = F.isSubmitting
  /\ touched' = F.touched
  /\ savingIndexes' = F.savingIndexes

\* Formik errors.items: validation runs when values change, on blur and on
\* submit, and the rows a reset takes from the Snapshot pass it.
errors == [i \in DOMAIN values |-> NameError(values[i].name)]

\* CrudTableRow without the test of touched: errors are shown proactively.
fieldErrorProactive(index) == At(errors, index)

\* CrudTableRow: the error text the name field of row index is rendered
\* with, "" for none.
fieldError(index) ==
  IF index \in touched /\ At(errors, index) # "" THEN At(errors, index) ELSE ""

\* The React key of the row item at index: item.id || index.
key(item, index) == IF item.id # 0 THEN item.id ELSE index

\* Formik dirty: the Save button is enabled when dirty and not submitting.
Dirty == values # initialValues

-----------------------------------------------------------------------------
(* Async handlers, requests and confirmations *)

\* The slots of the saves, then the slots of the confirmed deletions.
SaveSlots == 1..MaxSaves
DeleteSlots == (MaxSaves + 1)..(MaxSaves + MaxDeletes)
ProcSlots == SaveSlots \cup DeleteSlots
PromptSlots == 1..MaxPrompts

\* The owner of the GET the store's effect starts.
Loader == 0

Idle == [kind |-> "idle"]

\* A request in flight: a fetch and the handler that awaits it.
Request(owner, fetch) ==
  [owner |-> owner, method |-> fetch.method, url |-> fetch.url, body |-> fetch.body]

FetchPart(req) == Fetch(req.method, req.url, req.body)

\* The least free slot, or 0 when none is free.
FreeSlot(table, slots) ==
  IF \E s \in slots : table[s] = Idle
  THEN CHOOSE s \in slots : table[s] = Idle /\ \A t \in slots : t < s => table[t] # Idle
  ELSE 0

\* An unmount that cancels what is suspended.
OrphanCancelled(table) == [s \in DOMAIN table |-> Idle]

\* Unmounting ends the table instance the suspended closures belong to.
Orphan(table) ==
  [s \in DOMAIN table |-> IF table[s] = Idle THEN Idle ELSE [table[s] EXCEPT !.live = FALSE]]

\* The status of a task that is not the arrival of a response.
NoStatus == 0

\* The task that ran last, with the notification it showed and, for the
\* arrival of a response, the status of the response.
Event(op, toast, idx) == [op |-> op, toast |-> toast, idx |-> idx, status |-> NoStatus]

Responded(event, status) == [event EXCEPT !.status = status]

-----------------------------------------------------------------------------
(* The Apollo client: operations, results and errors *)

Operations == 1..MaxOperations

OperationNames == {"ListUsers", "RefreshAuthTokens"}

\* window.location.href: the page of the application, the page while the
\* cookies are being cleared, the login page.
App == "/crud"
Clearing == "/crud#clearing"
Login == "/auth/login"

\* A GraphQLError: extensions.code and a message, kept as its fragments.
GraphQLError(code, message) == [code |-> code, message |-> message]

Codes == {"UNAUTHENTICATED", "INTERNAL_SERVER_ERROR"}

Messages ==
  {<<"Unauthorized">>, <<"jwt: ", "Token expired">>, <<"Invalid token", " (kid)">>,
   <<"Not found">>}

GraphQLErrors == {GraphQLError(code, message) : code \in Codes, message \in Messages}

\* A result of the HttpLink: data with no error or with one error.
Results == {[errors |-> <<>>]} \cup {[errors |-> <<err>>] : err \in GraphQLErrors}

\* String.prototype.includes on the fragments of a message.
Includes(message, part) == \E k \in DOMAIN message : message[k] = part

\* errorLink: the test of an authentication error.
IsAuthError(err) ==
  \/ err.code = "UNAUTHENTICATED"
  \/ Includes(err.message, "Unauthorized")
  \/ Includes(err.message, "Token expired")
  \/ Includes(err.message, "Invalid token")

\* The first authentication error of a result, at the for loop; 0 for none.
FirstAuthError(result) ==
  IF \E k \in DOMAIN result.errors : IsAuthError(result.errors[k])
  THEN CHOOSE k \in DOMAIN result.errors :
         /\ IsAuthError(result.errors[k])
         /\ \A j \in 1..(k - 1) : ~IsAuthError(result.errors[j])
  ELSE 0

\* An operation: its name and what its observer has been given: nothing yet
\* ("forwarded"), a result ("next"), an error ("error"), or the end of the
\* stream with neither ("complete").
Operation(name, got) == [operationName |-> name, got |-> got]

NotSent == Operation("", "")

-----------------------------------------------------------------------------
(* Initial load *)

Init ==
  /\ items = <<>>
  /\ loading = TRUE
  /\ error = FALSE
  /\ now = Epoch - 1
  /\ network = {Request(Loader, fetchItems)}
  /\ procs = [s \in ProcSlots |-> Idle]
  /\ mounted = FALSE
  /\ values = <<>>
  /\ initialValues = <<>>
  /\ isSubmitting = FALSE
  /\ touched = {}
  /\ savingIndexes = {}
  /\ prompts = [q \in PromptSlots |-> Idle]
  /\ appended = 0
  /\ posts = 0
  /\ isRefreshing = FALSE
  /\ pendingRequests = <<>>
  /\ operations = [o \in Operations |-> NotSent]
  /\ location = App
  /\ last = Event("init", "none", -1)

\* fetchItems: the GET returns data; the page leaves Loading and renders the table.
LoadReturn ==
  /\ loading
  /\ \E data \in Responses :
       /\ items' = Transformer(data)
       /\ SetForm(FreshForm(Transformer(data)))
  /\ loading' = FALSE
  /\ mounted' = TRUE
  /\ network' = {r \in network : r.owner # Loader}
  /\ last' = Event("load", "none", -1)
  /\ UNCHANGED <<error, now, procs, prompts, appended, posts, linkVars>>

\* fetchItems with a retry: when the GET throws, it is issued again.
LoadThrowRetry ==
  /\ loading
  /\ last' = Event("loadRetry", "none", -1)
  /\ UNCHANGED <<storeVars, network, procs, mounted, formVars, prompts, appended, posts, linkVars>>

\* fetchItems: the GET throws; the page renders the error panel, never the table.
LoadThrow ==
  /\ loading
  /\ error' = TRUE
  /\ loading' = FALSE
  /\ network' = {r \in network : r.owner # Loader}
  /\ last' = Event("loadFailed", "none", -1)
  /\ UNCHANGED <<items, now, procs, mounted, formVars, prompts, appended, posts, linkVars>>

-----------------------------------------------------------------------------
(* Tabs: the table is rendered only while its tab is active *)

SwitchAway ==
  /\ mounted
  /\ mounted' = FALSE
  /\ SetForm(NoForm)
  /\ procs' = Orphan(procs)
  /\ prompts' = Orphan(prompts)
  /\ last' = Event("unmount", "none", -1)
  /\ UNCHANGED <<storeVars, network, appended, posts, linkVars>>

SwitchBack ==
  /\ ~mounted /\ ~loading /\ ~error
  /\ mounted' = TRUE
  /\ SetForm(FreshForm(items))
  /\ last' = Event("mount", "none", -1)
  /\ UNCHANGED <<storeVars, network, procs, prompts, appended, posts, linkVars>>

-----------------------------------------------------------------------------
(* Editing *)

\* AddRowButton: push(config.emptyItem), for at most limit rows in a run.
AppendRowWithin(limit) ==
  /\ mounted
  /\ appended < limit
  /\ values' = Append(values, emptyItem)
  /\ appended' = appended + 1
  /\ last' = Event("append", "none", Len(values))
  /\ UNCHANGED <<storeVars, network, procs, mounted, initialValues,
                 isSubmitting, touched, savingIndexes, prompts,
                 posts, linkVars>>

AppendRow == AppendRowWithin(MaxAppends)

\* handleChange on the name input of row index.
EditField(index, value) ==
  /\ mounted
  /\ index + 1 \in DOMAIN values
  /\ value # values[index + 1].name
  /\ values' = [values EXCEPT ![index + 1].name = value]
  /\ last' = Event("edit", "none", index)
  /\ UNCHANGED <<storeVars, network, procs, mounted, initialValues,
                 isSubmitting, touched, savingIndexes, prompts, appended, posts, linkVars>>

\* handleBlur on the name input of row index.
BlurField(index) ==
  /\ mounted
  /\ index + 1 \in DOMAIN values
  /\ index \notin touched
  /\ touched' = touched \cup {index}
  /\ last' = Event("blur", "none", index)
  /\ UNCHANGED <<storeVars, network, procs, mounted, values, initialValues,
                 isSubmitting, savingIndexes, prompts, appended, posts, linkVars>>

-----------------------------------------------------------------------------
(* save(): Formik submitForm and handleSubmit *)

\* Formik submitForm marks every field of values as touched.
Submitted(F) ==
  [F EXCEPT !.isSubmitting = TRUE, !.touched = 0..(Len(F.values) - 1)]

\* The Save button is rendered enabled.
CanSubmit == mounted /\ ~isSubmitting /\ Dirty

\* onSave([values.items[idx]], [0]): the Store calls of one loop iteration.
onSave(vals, idx) == handleSaveUsers(<<At(vals, idx)>>, <<0>>)

\* The loop of handleSubmit without its await: on reaching position k it
\* starts the fetches of all the rows from position k on.
StartedNoAwait(vals, dirtyIndexes, k) ==
  [j \in 1..(Len(dirtyIndexes) - k + 1) |->
     FetchOf(Head(onSave(vals, dirtyIndexes[k + j - 1])))]

\* The fetches handleSubmit starts on reaching position k of its loop: it
\* awaits onSave, so only the fetch of the row at position k.
Started(vals, dirtyIndexes, k) == <<FetchOf(Head(onSave(vals, dirtyIndexes[k])))>>

\* The count of POST calls after these fetches were started; the count stops
\* at MaxPosts.
Issued(count, fetches) ==
  Min(count + Cardinality({j \in DOMAIN fetches : fetches[j].method = "POST"}),
      MaxPosts)

Requests(owner, fetches) == {Request(owner, fetches[j]) : j \in DOMAIN fetches}

\* handleSubmit with the try/catch inside its loop: a throw skips to the next row.
handleSubmitNextSwallow(p, threw) ==
  IF Len(p.pending) > 1 THEN "onSave"
  ELSE IF p.pos < Len(p.dirtyIndexes) THEN "loop"
  ELSE IF threw THEN "catch"
  ELSE "done"

\* What handleSubmit does when the fetch it awaits has settled.
handleSubmitNext(p, threw) ==
  IF threw THEN "catch"
  ELSE IF Len(p.pending) > 1 THEN "onSave"
  ELSE IF p.pos < Len(p.dirtyIndexes) THEN "loop"
  ELSE "done"

\* Validation fails: Formik does not call handleSubmit.
SubmitInvalid ==
  /\ CanSubmit
  /\ ~ValidForm(values)
  /\ SetForm(Render([Submitted(Form) EXCEPT !.isSubmitting = FALSE], items))
  /\ last' = Event("submitInvalid", "none", -1)
  /\ UNCHANGED <<storeVars, network, procs, mounted, prompts, appended, posts, linkVars>>

\* handleSubmit with no dirty index and without its toast.info.
SubmitNoChangesSilent ==
  /\ CanSubmit
  /\ ValidForm(values)
  /\ DirtyIndexes(values, items) = <<>>
  /\ SetForm(Render([Submitted(Form) EXCEPT !.isSubmitting = FALSE], items))
  /\ last' = Event("noChanges", "none", -1)
  /\ UNCHANGED <<storeVars, network, procs, mounted, prompts, appended, posts, linkVars>>

\* handleSubmit with no dirty index.
SubmitNoChanges ==
  /\ CanSubmit
  /\ ValidForm(values)
  /\ DirtyIndexes(values, items) = <<>>
  /\ SetForm(Render([Submitted(Form) EXCEPT !.isSubmitting = FALSE], items))
  /\ last' = Event("noChanges", "info", -1)
  /\ UNCHANGED <<storeVars, network, procs, mounted, prompts, appended, posts, linkVars>>

\* handleSubmit up to its first await.
SubmitSave ==
  /\ CanSubmit
  /\ ValidForm(values)
  /\ DirtyIndexes(values, items) # <<>>
  /\ FreeSlot(procs, SaveSlots) # 0
  /\ LET s == FreeSlot(procs, SaveSlots)
         dirtyIndexes == DirtyIndexes(values, items)
         p == [kind |-> "save", live |-> TRUE, values |-> values,
               dirtyIndexes |-> dirtyIndexes, pos |-> 1,
               pending |-> onSave(values, dirtyIndexes[1]),
               calls |-> Started(values, dirtyIndexes, 1)]
     IN  /\ procs' = [procs EXCEPT ![s] = p]
         /\ network' = network \cup Requests(s, p.calls)
         /\ SetForm(Render([Submitted(Form) EXCEPT
                               !.savingIndexes = Range(dirtyIndexes)], items))
         /\ posts' = Issued(posts, p.calls)
         /\ last' = Event("submit", "none", dirtyIndexes[1])
  /\ UNCHANGED <<storeVars, mounted, prompts, appended, linkVars>>

\* The fetch awaited by the save in slot s settles.
SaveSettle(s, threw, stamp, status) ==
  /\ procs[s] # Idle /\ procs[s].kind = "save"
  /\ LET p == procs[s]
         idx == p.dirtyIndexes[p.pos]
         its == IF threw THEN items ELSE Settle(items, Head(p.pending), stamp)
         step == handleSubmitNext(p, threw)
         unmark == IF p.live THEN [Form EXCEPT !.savingIndexes = @ \ {idx}] ELSE Form
     IN  /\ items' = its
         /\ now' = stamp
         /\ CASE step = "onSave" ->
                   LET fetch == FetchOf(p.pending[2])
                       q == [p EXCEPT !.pending = Tail(@), !.calls = Append(@, fetch)]
                   IN  /\ procs' = [procs EXCEPT ![s] = q]
                       /\ network' = {r \in network : r.owner # s} \cup {Request(s, fetch)}
                       /\ posts' = Issued(posts, <<fetch>>)
                       /\ SetForm(Render(Form, its))
                       /\ last' = Responded(Event("saved", "none", idx), status)
              [] step = "loop" ->
                   LET fetches == Started(p.values, p.dirtyIndexes, p.pos + 1)
                       q == [p EXCEPT !.pos = @ + 1,
                                      !.pending = onSave(p.values, p.dirtyIndexes[p.pos + 1]),
                                      !.calls = @ \o fetches]
                   IN  /\ procs' = [procs EXCEPT ![s] = q]
                       /\ network' = {r \in network : r.owner # s} \cup Requests(s, fetches)
                       /\ posts' = Issued(posts, fetches)
                       /\ SetForm(Render(unmark, its))
                       /\ last' = Responded(Event("saved", "none", idx), status)
              [] step = "done" ->
                   /\ procs' = [procs EXCEPT ![s] = Idle]
                   /\ network' = {r \in network : r.owner # s}
                   /\ posts' = posts
                   /\ SetForm(Render(IF p.live THEN resetForm(unmark, p.values)
                                     ELSE Form, its))
                   /\ last' = Responded(Event("saveOk", "success", idx), status)
              [] step = "catch" ->
                   /\ procs' = [procs EXCEPT ![s] = Idle]
                   /\ network' = {r \in network : r.owner # s}
                   /\ posts' = posts
                   /\ SetForm(Render(IF p.live
                                     THEN [Form EXCEPT !.savingIndexes = {},
                                                       !.isSubmitting = FALSE]
                                     ELSE Form, its))
                   /\ last' = Responded(Event("saveFailed", "error", idx), status)
  /\ UNCHANGED <<loading, error, mounted, prompts, appended, linkVars>>

\* The readings Date.now() can give next: the same millisecond or a later one.
Clock == IF now < Epoch THEN {Epoch} ELSE {now, now + 1}

\* The fetch awaited by the save in slot s gets a response with this status.
SaveRespond(s, status) ==
  \E stamp \in (IF procs[s] # Idle /\ procs[s].kind = "save"
                   /\ Head(procs[s].pending).op = "createUser"
                   /\ ~FetchRejects(status)
                THEN Clock ELSE {now}) :
    SaveSettle(s, FetchRejects(status), stamp, status)

SaveReturn(s) == \E status \in Statuses : SaveRespond(s, status)

SaveThrow(s) == SaveSettle(s, TRUE, now, NoStatus)

-----------------------------------------------------------------------------
(* deleteRow: handleDelete and confirmDelete *)

\* FieldArray remove(index): it splices values.items and touched.items.
remove(F, index) ==
  [F EXCEPT !.values = Splice(@, index),
            !.touched = {i \in @ : i < index} \cup {i - 1 : i \in {j \in @ : j > index}}]

\* handleDelete without the test of the identifier.
NeedsDeleteAlways(c) == TRUE

\* handleDelete calls onDelete only for a row that has an identifier.
NeedsDelete(c) == c.id # Sentinel

\* DeleteButton of row index: confirmDelete shows a toast with two actions.
ClickDelete(index) ==
  /\ mounted
  /\ index + 1 \in DOMAIN values
  /\ index \notin savingIndexes
  /\ FreeSlot(prompts, PromptSlots) # 0
  /\ LET q == FreeSlot(prompts, PromptSlots)
         c == [kind |-> "prompt", live |-> TRUE, id |-> values[index + 1].id,
               index |-> index]
     IN  /\ prompts' = [prompts EXCEPT ![q] = c]
         /\ last' = Event("clickDelete", "none", index)
  /\ UNCHANGED <<storeVars, network, procs, mounted, formVars, appended, posts, linkVars>>

\* The Delete action of the toast: onConfirm up to its await, or to its end.
ConfirmDelete(q) ==
  /\ prompts[q] # Idle
  /\ LET c == prompts[q]
         s == FreeSlot(procs, DeleteSlots)
     IN  IF NeedsDelete(c)
         THEN /\ s # 0
              /\ procs' = [procs EXCEPT ![s] = [c EXCEPT !.kind = "delete"]]
              /\ network' = network \cup {Request(s, deleteItemFetch(c.id))}
              /\ UNCHANGED formVars
              /\ last' = Event("confirm", "none", c.index)
         ELSE /\ SetForm(IF c.live THEN remove(Form, c.index) ELSE Form)
              /\ UNCHANGED <<procs, network>>
              /\ last' = Event("confirm", "none", c.index)
  /\ prompts' = [prompts EXCEPT ![q] = Idle]
  /\ UNCHANGED <<storeVars, mounted, appended, posts, linkVars>>

\* A Cancel action wired to onConfirm.
CancelDeleteConfirms(q) == ConfirmDelete(q)

\* The Cancel action of the toast.
CancelDelete(q) ==
  /\ prompts[q] # Idle
  /\ prompts' = [prompts EXCEPT ![q] = Idle]
  /\ last' = Event("cancel", "none", prompts[q].index)
  /\ UNCHANGED <<storeVars, network, procs, mounted, formVars, appended, posts, linkVars>>

\* The toast expires after its duration.
ExpireDelete(q) ==
  /\ prompts[q] # Idle
  /\ prompts' = [prompts EXCEPT ![q] = Idle]
  /\ last' = Event("expire", "none", prompts[q].index)
  /\ UNCHANGED <<storeVars, network, procs, mounted, formVars, appended, posts, linkVars>>

\* An optimistic deleteItem: the entry is removed also when the DELETE throws.
DeleteThrowOptimistic(s) ==
  /\ procs[s] # Idle /\ procs[s].kind = "delete"
  /\ items' = deleteItem(items, procs[s].id)
  /\ SetForm(Render(Form, deleteItem(items, procs[s].id)))
  /\ procs' = [procs EXCEPT ![s] = Idle]
  /\ network' = {r \in network : r.owner # s}
  /\ last' = Event("deleteFailed", "none", procs[s].index)
  /\ UNCHANGED <<loading, error, now, mounted, prompts, appended, posts, linkVars>>

\* The DELETE awaited in slot s throws: onConfirm rejects, nothing catches it.
DeleteThrow(s) ==
  /\ procs[s] # Idle /\ procs[s].kind = "delete"
  /\ procs' = [procs EXCEPT ![s] = Idle]
  /\ network' = {r \in network : r.owner # s}
  /\ last' = Event("deleteFailed", "none", procs[s].index)
  /\ UNCHANGED <<storeVars, mounted, formVars, prompts, appended, posts, linkVars>>

\* The DELETE awaited in slot s returns: deleteItem, then remove(index).
DeleteSettle(s, status) ==
  /\ procs[s] # Idle /\ procs[s].kind = "delete"
  /\ LET p == procs[s]
         its == deleteItem(items, p.id)
     IN  /\ items' = its
         /\ SetForm(Render(IF p.live THEN remove(Form, p.index) ELSE Form, its))
         /\ last' = Responded(Event("deleted", "none", p.index), status)
  /\ procs' = [procs EXCEPT ![s] = Idle]
  /\ network' = {r \in network : r.owner # s}
  /\ UNCHANGED <<loading, error, now, mounted, prompts, appended, posts, linkVars>>

\* The DELETE awaited in slot s gets a response with this status.
DeleteRespond(s, status) ==
  IF FetchRejects(status) THEN DeleteThrow(s) ELSE DeleteSettle(s, status)

DeleteReturn(s) == \E status \in Statuses : DeleteRespond(s, status)

-----------------------------------------------------------------------------

Next ==
  \/ LoadReturn
  \/ LoadThrow
  \/ SwitchAway
  \/ SwitchBack
  \/ AppendRow
  \/ \E index \in 0..(Len(values) - 1), value \in NameValues : EditField(index, value)
  \/ \E index \in 0..(Len(values) - 1) : BlurField(index)
  \/ SubmitInvalid
  \/ SubmitNoChanges
  \/ SubmitSave
  \/ \E s \in SaveSlots : SaveReturn(s)
  \/ \E s \in SaveSlots : SaveThrow(s)
  \/ \E index \in 0..(Len(values) - 1) : ClickDelete(index)
  \/ \E q \in PromptSlots : ConfirmDelete(q)
  \/ \E q \in PromptSlots : CancelDelete(q)
  \/ \E q \in PromptSlots : ExpireDelete(q)
  \/ \E s \in DeleteSlots : DeleteReturn(s)
  \/ \E s \in DeleteSlots : DeleteThrow(s)

Spec == Init /\ [][Next]_vars

\* The table with one save at a time and nothing else: rows are appended
\* and edited, and saved in batches of several rows.
NextBatch ==
  \/ LoadReturn
  \/ AppendRowWithin(MaxBatch)
  \/ \E index \in 0..(Len(values) - 1), value \in NameValues : EditField(index, value)
  \/ SubmitSave
  \/ \E s \in SaveSlots : SaveReturn(s)
  \/ \E s \in SaveSlots : SaveThrow(s)

SpecBatch == Init /\ [][NextBatch]_vars

\* The table with batches of rows and with delete confirmations: rows are
\* appended, given a name and saved while a confirmation is on screen.
NextPrompt ==
  \/ LoadReturn
  \/ AppendRowWithin(MaxBatch)
  \/ \E index \in 0..(Len(values) - 1) : EditField(index, "Al")
  \/ SubmitSave
  \/ \E s \in SaveSlots : SaveReturn(s)
  \/ \E index \in 0..(Len(values) - 1) : ClickDelete(index)
  \/ \E q \in PromptSlots : ConfirmDelete(q)
  \/ \E s \in DeleteSlots : DeleteReturn(s)

SpecPrompt == Init /\ [][NextPrompt]_vars

-----------------------------------------------------------------------------
(* errorLink: the operations sent through the client *)

\* The client executes operation o: errorLink subscribes to forward(operation).
Execute(o, name) ==
  /\ location # Login
  /\ operations[o] = NotSent
  /\ operations' = [operations EXCEPT ![o] = Operation(name, "forwarded")]
  /\ UNCHANGED <<isRefreshing, pendingRequests, location>>
  /\ UNCHANGED <<storeVars, network, procs, mounted, formVars, prompts, appended,
                 posts, last>>

\* The HttpLink emits the result of operation o and completes: the next
\* handler of errorLink, then its complete handler.
HttpNext(o, result) ==
  /\ location # Login
  /\ operations[o].got = "forwarded"
  /\ LET k == FirstAuthError(result)
         name == operations[o].operationName
     IN  IF k = 0
         THEN /\ operations' = [operations EXCEPT ![o].got = "next"]
              /\ UNCHANGED <<isRefreshing, pendingRequests, location>>
         ELSE IF name = "RefreshAuthTokens"
         THEN /\ operations' = [operations EXCEPT ![o].got = "error"]
              /\ location' = IF location = App THEN Clearing ELSE location
              /\ UNCHANGED <<isRefreshing, pendingRequests>>
         ELSE IF isRefreshing
         THEN /\ pendingRequests' = Append(pendingRequests, o)
              /\ operations' = [operations EXCEPT ![o].got = "complete"]
              /\ UNCHANGED <<isRefreshing, location>>
         ELSE /\ isRefreshing' = TRUE
              /\ operations' = [operations EXCEPT ![o].got = "complete"]
              /\ UNCHANGED <<pendingRequests, location>>
  /\ UNCHANGED <<storeVars, network, procs, mounted, formVars, prompts, appended,
                 posts, last>>

\* The HttpLink fails for operation o: the error handler of errorLink.
HttpError(o) ==
  /\ location # Login
  /\ operations[o].got = "forwarded"
  /\ operations' = [operations EXCEPT ![o].got = "error"]
  /\ UNCHANGED <<isRefreshing, pendingRequests, location>>
  /\ UNCHANGED <<storeVars, network, procs, mounted, formVars, prompts, appended,
                 posts, last>>

\* fetch('/api/auth/clear-cookies') settles, either way: the page goes to
\* the login page.
ClearCookiesSettle ==
  /\ location = Clearing
  /\ location' = Login
  /\ UNCHANGED <<isRefreshing, pendingRequests, operations>>
  /\ UNCHANGED <<storeVars, network, procs, mounted, formVars, prompts, appended,
                 posts, last>>

NextLink ==
  \/ \E o \in Operations, name \in OperationNames : Execute(o, name)
  \/ \E o \in Operations, result \in Results : HttpNext(o, result)
  \/ \E o \in Operations : HttpError(o)
  \/ ClearCookiesSettle

\* Every request of the HttpLink eventually gets its response or fails.
FairnessLink ==
  /\ \A o \in Operations : WF_vars(HttpError(o) \/ \E result \in Results : HttpNext(o, result))
  /\ WF_vars(ClearCookiesSettle)

SpecLink == Init /\ [][NextLink]_vars /\ FairnessLink

\* The table of SpecBatch when every request eventually returns or throws:
\* the fetch a save awaits does not stay pending for ever.
Fairness == \A s \in SaveSlots : WF_vars(SaveReturn(s) \/ SaveThrow(s))

SpecFair == Init /\ [][NextBatch]_vars /\ Fairness

-----------------------------------------------------------------------------
(* Vocabulary of the properties *)

Writes == {"POST", "PUT", "DELETE"}

\* The requests in flight that the handler in slot s awaits.
Awaited(net, s) == {r \in net : r.owner = s}

\* Row i (from 0) of vals is persisted and equal to the Snapshot entry at i.
Clean(vals, its, i) == At(vals, i).id # Sentinel /\ At(vals, i) = At(its, i)

\* The rows a save has to submit, in ascending order: the unpersisted rows
\* and the rows that differ from the Snapshot entry at the same index.
WantedIndexes(vals, its) ==
  SelectSeq([i \in DOMAIN vals |-> i - 1], LAMBDA i : ~Clean(vals, its, i))

\* The one request a dirty row is submitted with.
WantedFetch(row) ==
  IF row.id = Sentinel
  THEN [method |-> "POST", url |-> <<"users">>, body |-> row]
  ELSE [method |-> "PUT", url |-> <<"users", row.id>>, body |-> row]

\* This step starts a save in slot s; this step ends the save in slot s.
Starts(s) == procs[s] = Idle /\ procs'[s] # Idle
Ends(s) == procs[s] # Idle /\ procs'[s] = Idle
Succeeds(s) == Ends(s) /\ last'.op = "saveOk"

-----------------------------------------------------------------------------
(* C1: one save() issues exactly one Store call per dirty row index (the   *)
(* row is unpersisted, or differs from the Snapshot entry at its index): a *)
(* POST for an unpersisted row, a PUT to the row's identifier otherwise;   *)
(* no call for another row, and never a DELETE. A save that has issued k   *)
(* calls has issued those of its first k dirty rows, and it succeeds only  *)
(* after the call of its last dirty row.                                   *)
C1_Step ==
  \A s \in SaveSlots :
    /\ Starts(s) =>
         /\ procs'[s].values = values
         /\ procs'[s].dirtyIndexes = WantedIndexes(values, items)
    /\ procs'[s] # Idle =>
         LET p == procs'[s]
         IN  /\ p.pos \in DOMAIN p.dirtyIndexes
             /\ p.calls = [k \in 1..p.pos |->
                             WantedFetch(At(p.values, p.dirtyIndexes[k]))]
             /\ {FetchPart(r) : r \in Awaited(network', s)} = {p.calls[p.pos]}
    /\ Succeeds(s) => procs[s].pos = Len(procs[s].dirtyIndexes)

C1_SaveIssuesOneCallPerDirtyRow == [][C1_Step]_vars

\* A save of an edited persisted row and an appended row awaits its second
\* call: it has issued a PUT and then a POST.
C1_Witness ==
  \E s \in SaveSlots :
    /\ procs[s] # Idle
    /\ procs[s].pos = 2 /\ Len(procs[s].dirtyIndexes) = 2
    /\ procs[s].calls[1].method = "PUT"
    /\ procs[s].calls[2].method = "POST"
    /\ Awaited(network, s) # {}

-----------------------------------------------------------------------------
(* C2: when a save() of the mounted table completes successfully, the Edit *)
(* Buffer equals the diff baseline row for row, so a second save() right   *)
(* after it finds no dirty row and issues no call (the Save button is      *)
(* disabled); also when the save created unpersisted rows.                 *)
C2_Step ==
  \A s \in SaveSlots :
    (Succeeds(s) /\ procs[s].live) =>
      /\ values' = items'
      /\ DirtyIndexes(values', items') = <<>>
      /\ WantedIndexes(values', items') = <<>>
      /\ ~CanSubmit'

C2_SaveIsIdempotent == [][C2_Step]_vars

\* A save that created a row has just succeeded.
C2_Witness ==
  /\ last.op = "saveOk" /\ mounted
  /\ \E i \in DOMAIN items : items[i].id >= Epoch
  /\ values = items
  /\ \A s \in ProcSlots : procs[s] = Idle

-----------------------------------------------------------------------------
(* C3, as claimed: at every moment at most one write request of the table  *)
(* is in flight.                                                           *)
C3_Original == Cardinality({r \in network : r.method \in Writes}) <= 1

(* C3, amended: at every moment each save() awaits exactly one write       *)
(* request and each confirmed deletion awaits exactly one; the request of  *)
(* a deletion can be in flight together with the request of a save.        *)
C3_OneRequestPerHandler ==
  \A s \in ProcSlots :
    Cardinality(Awaited(network, s)) = (IF procs[s] = Idle THEN 0 ELSE 1)

\* A save and a confirmed deletion each have a request in flight.
C3_Witness ==
  /\ \E r \in network : r.owner \in SaveSlots /\ r.method \in {"POST", "PUT"}
  /\ \E r \in network : r.owner \in DeleteSlots /\ r.method = "DELETE"

-----------------------------------------------------------------------------
(* C4: when a Store call throws during save(), the save ends there: it     *)
(* issues no call for a later dirty row, the failure notification is       *)
(* shown and no success notification.                                      *)
C4_Step ==
  \A s \in SaveSlots :
    SaveThrow(s) =>
      /\ procs'[s] = Idle
      /\ network' = network \ Awaited(network, s)
      /\ last'.toast = "error"

C4_ThrowAbortsSave == [][C4_Step]_vars

\* The first call of a save of two dirty rows threw: both rows are still
\* to be saved and no request is in flight.
C4_Witness ==
  /\ last.op = "saveFailed" /\ last.toast = "error"
  /\ mounted
  /\ Len(DirtyIndexes(values, items)) = 2
  /\ network = {}

-----------------------------------------------------------------------------
(* C5, as claimed: after a save() aborted by a throw, with no user event   *)
(* since the save's previous call returned (or since its start), every     *)
(* dirty row whose call had succeeded is clean, and every other row of the *)
(* dirty set is still in the Edit Buffer with its edited values and still  *)
(* dirty, so the next save() submits exactly the failed and the            *)
(* not-yet-processed rows.                                                 *)
C5_Step ==
  \A s \in SaveSlots :
    (SaveThrow(s) /\ procs[s].live /\ last.op \in {"submit", "saved"}) =>
      LET p == procs[s]
          done == {p.dirtyIndexes[k] : k \in 1..(p.pos - 1)}
          rest == {p.dirtyIndexes[k] : k \in p.pos..Len(p.dirtyIndexes)}
      IN  /\ \A i \in done : i \notin Range(DirtyIndexes(values', items'))
          /\ \A i \in rest : At(values', i) = At(p.values, i)
          /\ \A i \in rest : i \in Range(DirtyIndexes(values', items'))

C5_Original == [][C5_Step]_vars

-----------------------------------------------------------------------------
(* C6: a row of the Edit Buffer has the sentinel identifier 0 unless it is *)
(* in the Snapshot; when the create response of a row arrives, the row is  *)
(* added to the Snapshot with the synthesized non-zero identifier and the  *)
(* mounted table displays it; after a successful save() of the mounted     *)
(* table no row of the Edit Buffer has identifier 0.                       *)
C6_Step ==
  /\ mounted' =>
       \A i \in DOMAIN values' :
         values'[i].id # Sentinel => \E j \in DOMAIN items' : items'[j].id = values'[i].id
  /\ \A s \in SaveSlots :
       /\ (SaveReturn(s) /\ Head(procs[s].pending).op = "createUser") =>
            LET sent == Head(procs[s].pending).item
                row == items'[Len(items')]
            IN  /\ sent.id = Sentinel
                /\ Len(items') = Len(items) + 1
                /\ row.id = now' /\ row.id # Sentinel /\ row.name = sent.name
                /\ mounted => \E i \in DOMAIN values' : values'[i] = row
       /\ (Succeeds(s) /\ procs[s].live) =>
            \A i \in DOMAIN values' : values'[i].id # Sentinel

C6_SentinelUntilCreated == [][C6_Step]_vars

\* A save of the loaded row and an appended row has succeeded: the second
\* row of the table carries the identifier synthesized from the clock.
C6_Witness ==
  /\ last.op = "saveOk" /\ mounted
  /\ Len(values) = 2
  /\ values[1].id = 1
  /\ values[2].id = now /\ now >= Epoch
  /\ items = values

-----------------------------------------------------------------------------
(* C7: confirming the deletion of a row whose identifier is the sentinel   *)
(* starts no request and no Store call, and no DELETE for the sentinel     *)
(* identifier is ever in flight; appending a row and raising the           *)
(* confirmation start no request either, so appendRow followed by a        *)
(* confirmed deleteRow of the appended row makes no network call.          *)
C7_Step ==
  /\ \A q \in PromptSlots :
       (ConfirmDelete(q) /\ prompts[q].id = Sentinel) =>
         /\ network' = network
         /\ procs' = procs
         /\ items' = items
  /\ AppendRow => network' = network
  /\ \A index \in 0..(Len(values) - 1) : ClickDelete(index) => network' = network
  /\ \A r \in network' : r.method = "DELETE" => r.url # <<"users", Sentinel>>

C7_NoDeleteCallForSentinel == [][C7_Step]_vars

\* A row was appended to the loaded table and its deletion confirmed: the
\* table is back to the Snapshot and no request was ever made after the load.
C7_Witness ==
  /\ last.op = "confirm" /\ last.idx = Len(items)
  /\ mounted /\ appended = 1
  /\ values = items /\ items # <<>>
  /\ network = {}
  /\ \A s \in ProcSlots : procs[s] = Idle
  /\ now = Epoch - 1

-----------------------------------------------------------------------------
(* C8: cancelling a delete confirmation, or letting it expire, makes no    *)
(* network call and no Store call, and leaves the Edit Buffer and the      *)
(* Snapshot unchanged.                                                     *)
C8_Step ==
  \A q \in PromptSlots :
    (CancelDelete(q) \/ ExpireDelete(q)) =>
      UNCHANGED <<network, procs, values, items>>

C8_CancelLeavesRowUntouched == [][C8_Step]_vars

\* The confirmation raised for a persisted row was cancelled: the row is in
\* the Edit Buffer and in the Snapshot, and nothing is in flight.
C8_Witness ==
  /\ last.op = "cancel" /\ mounted
  /\ last.idx + 1 \in DOMAIN values
  /\ values[last.idx + 1].id # Sentinel
  /\ At(values, last.idx) = At(items, last.idx)
  /\ network = {}

-----------------------------------------------------------------------------
(* C9, as claimed: a confirmed deleteRow of a persisted row issues exactly *)
(* one DELETE for the row's identifier, and when that call has ended,      *)
(* whatever its outcome, the Edit Buffer of the table has no row with that *)
(* identifier; a confirmed deleteRow of an unpersisted row removes the row *)
(* at once.                                                                *)
C9_Step ==
  /\ \A q \in PromptSlots :
       (ConfirmDelete(q) /\ prompts[q].live) =>
         IF prompts[q].id # Sentinel
         THEN \E r \in network' :
                /\ network' = network \cup {r} /\ r \notin network
                /\ r.method = "DELETE" /\ r.url = <<"users", prompts[q].id>>
         ELSE values' = Splice(values, prompts[q].index)
  /\ \A s \in DeleteSlots :
       ((DeleteReturn(s) \/ DeleteThrow(s)) /\ procs[s].live) =>
         \A i \in DOMAIN values' : values'[i].id # procs[s].id

C9_Original == [][C9_Step]_vars

-----------------------------------------------------------------------------
(* C10: when an edit sets the field of a persisted row back to the value   *)
(* of the Snapshot, the row is not in the dirty set, also when the field   *)
(* is touched; a save() that starts has no clean row in its dirty set,    *)
(* and the one call it starts with is the call of a row that is not clean. *)
C10_Step ==
  /\ \A index \in 0..(Len(values) - 1), value \in NameValues :
       (EditField(index, value) /\ Clean(values', items', index)) =>
         index \notin Range(DirtyIndexes(values', items'))
  /\ \A s \in SaveSlots :
       Starts(s) =>
         /\ \A index \in 0..(Len(values) - 1) :
              Clean(values, items, index) => index \notin Range(procs'[s].dirtyIndexes)
         /\ \E index \in Range(procs'[s].dirtyIndexes) :
              /\ ~Clean(values, items, index)
              /\ network' \ network = {Request(s, WantedFetch(At(values, index)))}

-----------------------------------------------------------------------------
(* C11, as claimed: in every reachable state the records of the Snapshot   *)
(* with a non-sentinel identifier have pairwise distinct identifiers, and  *)
(* so have the rows of the Edit Buffer; only records with the sentinel     *)
(* identifier may share it.                                                *)
C11_DistinctIds(a) ==
  \A i, j \in DOMAIN a :
    (i # j /\ a[i].id # Sentinel) => a[i].id # a[j].id

C11_Original == C11_DistinctIds(items) /\ C11_DistinctIds(values)

-----------------------------------------------------------------------------
(* C12: submitting the form while a row of the Edit Buffer breaks a        *)
(* validation rule (a name shorter than 2 characters) starts no request    *)
(* and no save; a save() starts only from a buffer in which every row      *)
(* passes, and every POST or PUT in flight carries a row that passes.      *)
C12_Passes(row) == Len(row.name) >= 2

C12_Step ==
  /\ (\E i \in DOMAIN values : ~C12_Passes(values[i])) =>
       /\ ~SubmitSave
       /\ SubmitInvalid => (network' = network /\ procs' = procs /\ items' = items)
  /\ \A s \in SaveSlots :
       Starts(s) => \A i \in DOMAIN values : C12_Passes(values[i])
  /\ \A r \in network' : r.method \in {"POST", "PUT"} => C12_Passes(r.body)

C12_InvalidFormIssuesNoCall == [][C12_Step]_vars

\* The form was submitted with an appended row whose name is empty: nothing
\* is in flight and no save runs.
C12_Witness ==
  /\ last.op = "submitInvalid" /\ mounted
  /\ \E i \in DOMAIN values : values[i].id = Sentinel /\ values[i].name = ""
  /\ network = {}
  /\ \A s \in ProcSlots : procs[s] = Idle

-----------------------------------------------------------------------------
(* C13, as claimed: when the form is submitted with a row that fails       *)
(* validation and a dirty row that passes, the submission starts the Store *)
(* call of a valid dirty row.                                              *)
C13_Step ==
  LET valid == {i \in Range(DirtyIndexes(values, items)) : C12_Passes(At(values, i))}
  IN  (SubmitInvalid /\ valid # {}) =>
        \E r \in network' \ network, i \in valid :
          FetchPart(r) = WantedFetch(At(values, i))

C13_Original == [][C13_Step]_vars

-----------------------------------------------------------------------------
(* C14: when the initial GET throws, the store has its error set and the   *)
(* load has ended; from then on the error stays, the table is not          *)
(* rendered, the Snapshot stays empty and no request is in flight. No step *)
(* starts a GET: the one of the mount is the only one.                     *)
C14_Step ==
  /\ LoadThrow => (error' /\ ~loading')
  /\ error => error'
  /\ error' => (~mounted' /\ ~loading' /\ items' = <<>> /\ network' = {})
  /\ \A r \in network' \ network : r.method # "GET"
  /\ \A r \in network : r.method = "GET" => (r.owner = Loader /\ loading)

C14_LoadFailureBlocks == [][C14_Step]_vars

\* The initial load has failed.
C14_Witness ==
  /\ last.op = "loadFailed"
  /\ error /\ ~loading /\ ~mounted
  /\ network = {}

-----------------------------------------------------------------------------
(* The effect of a write on the Snapshot, from its request *)

\* b is a with one record more at the end: the fields sent, the identifier stamp.
C15_Created(a, b, sent, stamp) ==
  /\ Len(b) = Len(a) + 1
  /\ \A j \in DOMAIN a : b[j] = a[j]
  /\ b[Len(b)] = [id |-> stamp, name |-> sent.name]

\* b is a with the entries of identifier id merged with the record sent.
C15_Updated(a, b, id, sent) ==
  /\ Len(b) = Len(a)
  /\ \A j \in DOMAIN a :
       b[j] = IF a[j].id = id THEN [id |-> sent.id, name |-> sent.name] ELSE a[j]

\* b is a without the entries of identifier id, the others in their order.
C15_Deleted(a, b, id) ==
  LET keep == {k \in DOMAIN a : a[k].id # id}
  IN  /\ Len(b) = Cardinality(keep)
      /\ \A k \in keep : b[Cardinality({m \in keep : m <= k})] = a[k]

C15_Effect(r, a, b, stamp) ==
  CASE r.method = "POST" -> C15_Created(a, b, r.body, stamp)
    [] r.method = "PUT" -> C15_Updated(a, b, r.url[2], r.body)
    [] r.method = "DELETE" -> C15_Deleted(a, b, r.url[2])

(* C15: when the request of a Store write returns, the Snapshot changes    *)
(* only at its target. A create appends one record at the end with the     *)
(* fields sent and the clock reading as identifier; an update merges the   *)
(* record sent into the entries that have its identifier; a delete removes *)
(* the entries that have its identifier; every other entry keeps its       *)
(* value and its place in the order.                                       *)
C15_Step ==
  \A s \in ProcSlots :
    (SaveReturn(s) \/ DeleteReturn(s)) =>
      /\ Awaited(network, s) # {}
      /\ \A r \in Awaited(network, s) : C15_Effect(r, items, items', now')

C15_WritesChangeOnlyTheirTarget == [][C15_Step]_vars

\* A save has updated the first of two records of the Snapshot: the loaded
\* record has the new name and the created record is as it was.
C15_Witness ==
  /\ last.op = "saveOk" /\ last.idx = 0
  /\ Len(items) = 2
  /\ items[1] = User(1, "Bo")
  /\ items[2].id >= Epoch /\ items[2].name = "Al"

-----------------------------------------------------------------------------
(* C16: when the request of a Store write gets a response, of a success    *)
(* status or not, the write has its effect on the Snapshot and its caller  *)
(* goes on as after a success: no failure notification is shown.           *)
C16_Step ==
  \A status \in Statuses, s \in ProcSlots :
    (SaveRespond(s, status) \/ DeleteRespond(s, status)) =>
      /\ \A r \in Awaited(network, s) : C15_Effect(r, items, items', now')
      /\ last'.op \in {"saved", "saveOk", "deleted"}
      /\ last'.toast # "error"
      /\ last'.status = status

C16_ResponseStatusIsIgnored == [][C16_Step]_vars

\* The POST of a save was answered with status 500: the save succeeded and
\* the record is in the Snapshot.
C16_Witness ==
  /\ last.op = "saveOk" /\ last.toast = "success" /\ last.status = 500
  /\ Len(items) = 2 /\ items[2].id = now

-----------------------------------------------------------------------------
(* C17: a save() shows one notification, at its end, and the one of its    *)
(* outcome. With no dirty row, handleSubmit shows 'No changes to save' and *)
(* starts no request. With dirty rows it shows nothing while its calls are *)
(* made, the success notification when the call of its last dirty row has  *)
(* returned, and the failure notification when a call has thrown.          *)
C17_Step ==
  /\ SubmitNoChanges =>
       (last'.toast = "info" /\ network' = network /\ procs' = procs)
  /\ last'.toast = "info" => SubmitNoChanges
  /\ last'.toast \in {"success", "error"} => \E s \in SaveSlots : Ends(s)
  /\ \A s \in SaveSlots :
       /\ (Starts(s) \/ (SaveReturn(s) /\ ~Ends(s))) => last'.toast = "none"
       /\ (Ends(s) /\ SaveThrow(s)) => last'.toast = "error"
       /\ (Ends(s) /\ ~SaveThrow(s)) =>
            /\ last'.toast = "success"
            /\ SaveReturn(s)
            /\ Len(procs[s].calls) = Len(procs[s].dirtyIndexes)

C17_OneNotificationPerSave == [][C17_Step]_vars

\* The form was submitted dirty with no dirty row (a row is missing from
\* the Edit Buffer): 'No changes to save' was shown and nothing is in flight.
C17_Witness ==
  /\ last.op = "noChanges" /\ last.toast = "info"
  /\ mounted
  /\ Len(values) < Len(items)
  /\ network = {}

-----------------------------------------------------------------------------
(* C18: the dirty rows of a save() are in ascending order of row index and *)
(* its calls are made in that order, one for each row; the save awaits one *)
(* request at a time, and it makes its next call only in the step in which *)
(* the request of the previous one returns.                                *)
C18_Step ==
  \A s \in SaveSlots :
    /\ procs'[s] # Idle =>
         LET p == procs'[s]
         IN  /\ \A j, k \in DOMAIN p.dirtyIndexes :
                  j < k => p.dirtyIndexes[j] < p.dirtyIndexes[k]
             /\ Len(p.calls) <= Len(p.dirtyIndexes)
             /\ \A k \in DOMAIN p.calls :
                  p.calls[k].body = At(p.values, p.dirtyIndexes[k])
             /\ Cardinality(Awaited(network', s)) = 1
    /\ (procs[s] # Idle /\ procs'[s] # Idle /\ Len(procs'[s].calls) # Len(procs[s].calls)) =>
         /\ SaveReturn(s)
         /\ Len(procs'[s].calls) = Len(procs[s].calls) + 1
         /\ Awaited(network', s) = {Request(s, procs'[s].calls[Len(procs'[s].calls)])}

C18_CallsInRowOrderOneAtATime == [][C18_Step]_vars

\* The call of row 0 of a save of rows 0 and 1 has returned, and the call
\* of row 1 is the only request of the save.
C18_Witness ==
  /\ last.op = "saved" /\ last.idx = 0
  /\ \E s \in SaveSlots :
       /\ procs[s] # Idle
       /\ procs[s].dirtyIndexes = <<0, 1>>
       /\ Awaited(network, s) = {Request(s, WantedFetch(At(procs[s].values, 1)))}

-----------------------------------------------------------------------------
(* C19: when the request of a Store create, update or delete throws, the   *)
(* Snapshot is as it was before the call. The Snapshot changes only in a   *)
(* step in which a request returns: the initial GET, or the request of a   *)
(* write; no step of the table and no start of a request changes it.       *)
C19_Step ==
  /\ \A s \in ProcSlots : (SaveThrow(s) \/ DeleteThrow(s)) => items' = items
  /\ items' # items =>
       \/ LoadReturn
       \/ \E s \in ProcSlots : SaveReturn(s) \/ DeleteReturn(s)
  /\ (network' \ network) # {} /\ (\A s \in ProcSlots : ~SaveReturn(s)) => items' = items

C19_ThrowLeavesSnapshot == [][C19_Step]_vars

\* The DELETE of the loaded record has thrown: the record is in the Snapshot.
C19_Witness ==
  /\ last.op = "deleteFailed"
  /\ items = <<User(1, "Al")>>
  /\ network = {}
  /\ \A s \in ProcSlots : procs[s] = Idle

-----------------------------------------------------------------------------
(* C20: appendRow, editField and the confirmed deletion of an unpersisted  *)
(* row leave the Snapshot as it is, start no request and no Store call,    *)
(* and leave the baseline of the form as it is. appendRow adds one row     *)
(* with identifier 0 and empty fields at the end of the Edit Buffer and    *)
(* keeps the rows before it; editField changes the one field of the one    *)
(* row.                                                                    *)
C20_Frame == UNCHANGED <<items, loading, error, network, procs, initialValues>>

C20_Step ==
  /\ AppendRow =>
       /\ C20_Frame
       /\ Len(values') = Len(values) + 1
       /\ \A i \in DOMAIN values : values'[i] = values[i]
       /\ values'[Len(values')].id = 0
       /\ values'[Len(values')].name = ""
  /\ \A index \in 0..(Len(values) - 1), value \in NameValues :
       EditField(index, value) =>
         /\ C20_Frame
         /\ Len(values') = Len(values)
         /\ \A i \in DOMAIN values :
              /\ values'[i].id = values[i].id
              /\ values'[i].name = IF i = index + 1 THEN value ELSE values[i].name
  /\ \A q \in PromptSlots :
       (ConfirmDelete(q) /\ prompts[q].id = 0) =>
         /\ C20_Frame
         /\ Len(values') \in {Len(values), Len(values) - 1}

C20_BufferOperationsAreLocal == [][C20_Step]_vars

\* A row has just been appended to the loaded table, with nothing in flight.
C20_Witness ==
  /\ last.op = "append" /\ mounted
  /\ items # <<>>
  /\ values = Append(items, [id |-> 0, name |-> ""])
  /\ network = {}

-----------------------------------------------------------------------------
(* C21, as claimed: the rows of the mounted table move only along          *)
(* unpersisted -> persisted-clean -> persisted-dirty -> persisted-clean.   *)
(* An unpersisted row leaves the Edit Buffer only when its create returns  *)
(* or when the deletion of an unpersisted row is confirmed; a dirty        *)
(* persisted row becomes clean only by an edit or when a call of a save    *)
(* returns; a successful save() leaves every row equal to its Snapshot     *)
(* entry; the Snapshot has no record with identifier 0.                    *)
C21_Unpersisted(vals) == {i \in DOMAIN vals : vals[i].id = Sentinel}

C21_PersistedDirty(vals, its) ==
  {vals[i].id : i \in {j \in DOMAIN vals : vals[j].id # Sentinel /\ ~Clean(vals, its, j - 1)}}

C21_Step ==
  /\ (mounted /\ mounted' /\
      Cardinality(C21_Unpersisted(values')) < Cardinality(C21_Unpersisted(values))) =>
       \/ \E q \in PromptSlots : ConfirmDelete(q) /\ prompts[q].id = Sentinel
       \/ \E s \in SaveSlots : SaveReturn(s) /\ Head(procs[s].pending).op = "createUser"
  /\ (mounted /\ mounted' /\
      \E id \in C21_PersistedDirty(values, items) :
        /\ id \notin C21_PersistedDirty(values', items')
        /\ \E i \in DOMAIN values' : values'[i].id = id) =>
       \/ \E index \in 0..(Len(values) - 1), value \in NameValues : EditField(index, value)
       \/ \E s \in SaveSlots : SaveReturn(s)
  /\ \A s \in SaveSlots :
       (Succeeds(s) /\ procs[s].live) =>
         \A i \in DOMAIN values' : Clean(values', items', i - 1)
  /\ \A j \in DOMAIN items' : items'[j].id # Sentinel

C21_Original == [][C21_Step]_vars

-----------------------------------------------------------------------------
(* C22: for every row of the mounted table, the name field shows an error  *)
(* text if and only if the field is touched and its value breaks a rule,   *)
(* and the text is the message of the rule; a field whose value breaks a   *)
(* rule and that is not touched shows no error text.                       *)
C22_ErrorShownIffTouched ==
  mounted =>
    \A index \in 0..(Len(values) - 1) :
      LET row == At(values, index)
          broken == Len(row.name) < 2
      IN  /\ (fieldError(index) # "") <=> (index \in touched /\ broken)
          /\ fieldError(index) # "" =>
               fieldError(index) = (IF row.name = "" THEN "Required" ELSE "Min 2 chars")
          /\ (broken /\ index \notin touched) => fieldError(index) = ""

\* The name of row 0 was emptied and its field left, and a row was appended
\* and not visited: both names are empty, only row 0 shows 'Required'.
C22_Witness ==
  /\ mounted /\ Len(values) = 2
  /\ values[1].name = "" /\ values[2].name = ""
  /\ touched = {0}
  /\ fieldError(0) = "Required" /\ fieldError(1) = ""

-----------------------------------------------------------------------------
(* C23: unmounting the table cancels nothing. The requests in flight stay  *)
(* in flight and every save in progress stays in progress. When a request  *)
(* of a save of the unmounted table returns, the Store applies its effect  *)
(* to the Snapshot, and if a dirty row is left the save makes the call of  *)
(* the next one.                                                           *)
C23_Step ==
  /\ SwitchAway =>
       /\ network' = network
       /\ \A s \in ProcSlots :
            /\ procs[s] = Idle => procs'[s] = Idle
            /\ procs[s] # Idle => procs'[s] = [procs[s] EXCEPT !.live = FALSE]
  /\ \A s \in SaveSlots :
       (SaveReturn(s) /\ ~procs[s].live) =>
         LET p == procs[s]
         IN  /\ \A r \in Awaited(network, s) : C15_Effect(r, items, items', now')
             /\ IF p.pos < Len(p.dirtyIndexes)
                THEN Awaited(network', s) =
                       {Request(s, WantedFetch(At(p.values, p.dirtyIndexes[p.pos + 1])))}
                ELSE procs'[s] = Idle /\ last'.op = "saveOk"

C23_UnmountCancelsNothing == [][C23_Step]_vars

\* The table was unmounted during a save of two rows: the first call has
\* returned and changed the Snapshot, the second call is in flight.
C23_Witness ==
  /\ ~mounted /\ last.op = "saved"
  /\ items = <<User(1, "Bo")>>
  /\ \E s \in SaveSlots :
       /\ procs[s] # Idle /\ ~procs[s].live
       /\ procs[s].pos = 2
       /\ \E r \in Awaited(network, s) : r.method = "POST"

-----------------------------------------------------------------------------
(* C24, as claimed: in every reachable state the keys of the rows the      *)
(* mounted table renders (the identifier of a row that has one, the index  *)
(* of a row with identifier 0) are pairwise distinct.                      *)
C24_Original ==
  mounted =>
    \A i, j \in DOMAIN values :
      i # j => key(values[i], i - 1) # key(values[j], j - 1)

-----------------------------------------------------------------------------
(* C25, as claimed: when a delete prompt of the mounted table is           *)
(* confirmed, the row at the place the prompt was raised for is the row of *)
(* the prompt as the prompt knows it (it has the identifier the prompt     *)
(* holds), whatever happened since the prompt was raised; the confirmation *)
(* removes that row from the Edit Buffer and, when the row is persisted,   *)
(* issues the DELETE of its identifier and of no other.                    *)
C25_Step ==
  \A q \in PromptSlots :
    (ConfirmDelete(q) /\ prompts[q].live /\ At(values, prompts[q].index) # Undefined) =>
      LET c == prompts[q]
          row == At(values, c.index)
      IN  /\ row.id = c.id
          /\ \A r \in network' \ network :
               r.method = "DELETE" /\ r.url = <<"users", row.id>>
          /\ row.id # Sentinel => network' # network
          /\ row.id = Sentinel => values' = Splice(values, c.index)

C25_Original == [][C25_Step]_vars

-----------------------------------------------------------------------------
(* C26, as claimed: when the DELETE of a confirmed deleteRow of a          *)
(* persisted row of the mounted table returns and the Store has updated    *)
(* the Snapshot, the Edit Buffer is the buffer of before without that row: *)
(* every other row, with its unsaved edits, and every unpersisted row is   *)
(* still there, unchanged.                                                 *)
C26_Step ==
  \A s \in DeleteSlots :
    (/\ DeleteReturn(s)
     /\ procs[s].live
     /\ At(values, procs[s].index) # Undefined
     /\ At(values, procs[s].index).id = procs[s].id) =>
      /\ items' = deleteItem(items, procs[s].id)
      /\ values' = Splice(values, procs[s].index)

C26_Original == [][C26_Step]_vars

-----------------------------------------------------------------------------
(* C27, as claimed: in every reachable state the number of POST calls      *)
(* issued so far is at most the number of rows appended so far, whatever   *)
(* appends, edits, deletions and saves, failed and repeated ones included, *)
(* came before.                                                            *)
C27_Original == posts <= appended

-----------------------------------------------------------------------------
(* C28: whenever the table is mounted and no POST, PUT or DELETE is in     *)
(* flight, every persisted row of the Edit Buffer is aligned with the      *)
(* Snapshot: the Snapshot has an entry at the index of the row, and that   *)
(* entry has the identifier of the row.                                    *)
C28_NoWriteInFlight == \A r \in network : r.method \notin Writes

C28_Aligned(vals, its) ==
  \A i \in DOMAIN vals :
    vals[i].id # Sentinel =>
      At(its, i - 1) # Undefined /\ At(its, i - 1).id = vals[i].id

C28_Original == (mounted /\ C28_NoWriteInFlight) => C28_Aligned(values, items)

-----------------------------------------------------------------------------
(* C29: when every request eventually returns or throws, every save() in   *)
(* progress eventually finishes; and at the step at which a save of the    *)
(* mounted table finishes, with no other save of it in progress, the form  *)
(* is not submitting and no row is marked as saving.                       *)
C29_Step ==
  \A s \in SaveSlots :
    (/\ Ends(s)
     /\ procs[s].live
     /\ \A o \in SaveSlots \ {s} : procs[o] = Idle \/ ~procs[o].live) =>
      /\ ~isSubmitting'
      /\ savingIndexes' = {}

-----------------------------------------------------------------------------
(* C30, as claimed: when every request of the HttpLink eventually gets its *)
(* response or fails, and as long as the page has not gone to the login    *)
(* page, the observer of every operation sent through the error link       *)
(* eventually gets a result or an error, also when the response carries an *)
(* authentication error; the refreshing flag, once set, is eventually      *)
(* cleared; and every operation queued in pendingRequests eventually       *)
(* leaves the queue to be replayed.                                        *)
C30_Delivered(o) == operations[o].got \in {"next", "error"}

C30_Queued(o) == \E k \in DOMAIN pendingRequests : pendingRequests[k] = o

C30_Original ==
  /\ \A o \in Operations :
       (operations[o].got = "forwarded") ~> (C30_Delivered(o) \/ location = Login)
  /\ isRefreshing ~> (~isRefreshing \/ location = Login)
  /\ \A o \in Operations : C30_Queued(o) ~> (~C30_Queued(o) \/ location = Login)

====
